---- MODULE Spec2Model ----
(***************************************************************************)
(* State machine of the chain-key-token contract (nft_key/src/lib.rs).     *)
(* Every public method and every callback of NftKeyContract is one action. *)
(* A handler is an operator from the contract state before the call to the *)
(* state at the point where the method returns or panics; Commit keeps the *)
(* state of a returning method and drops the writes of a panicking one.    *)
(***************************************************************************)
EXTENDS Integers, Sequences, FiniteSets, TLC

VARIABLES
    next_id,        \* NftKeyContract.next_id
    key_data,       \* NftKeyContract.key_data : u32 -> KeyData
    owner,          \* token registry (NEP-171): token id string -> owner
    pendingMint,    \* latest_key_version() promises awaiting mint_callback
    pendingApprove, \* ckt_on_approved promises awaiting ckt_approve_callback
    pendingRevoke,  \* ckt_on_revoked promises awaiting ckt_revoke_callback
    pendingSign,    \* sign() promises awaiting sign_callback
    issued,         \* history: identifiers handed out, in the order of the calls,
                    \* each with the token and the delegate it was issued for
    granted,        \* history: token -> delegate -> the grant still standing
    stale,          \* history: approval ids granted before a transfer of their token
    last            \* history: the call or callback just made, and its outcome

vars == <<next_id, key_data, owner, pendingMint, pendingApprove, pendingRevoke,
          pendingSign, issued, granted, stale, last>>

-----------------------------------------------------------------------------
(* Bounds of the model *)

MaxIssued == 3
MaxPending == 2

\* u32::MAX, with the width of the identifiers scaled down to 8 bits: the
\* counter and the parser reject what exceeds it.
U32_MAX == 255

(* Program constants *)

NoId == -1
CallbackDeposit == 0

Accounts == {"alice", "bob", "carol"}
CurrentAccount == "nft_key"
NoAccount == "none"
Deposits == {0, 1, 2}
KeyVersions == {7, 8}
PromiseError == "PromiseError"

-----------------------------------------------------------------------------
(* TokenId = String: u32::to_string and str::parse::<u32> *)

DigitChars == <<"0", "1", "2", "3", "4", "5", "6", "7", "8", "9">>

IsDigit(c) == \E d \in 1..10 : DigitChars[d] = c

DigitVal(c) == (CHOOSE d \in 1..10 : DigitChars[d] = c) - 1

RECURSIVE to_string(_)
to_string(n) ==
    IF n < 10 THEN <<DigitChars[n + 1]>>
    ELSE to_string(n \div 10) \o <<DigitChars[(n % 10) + 1]>>

RECURSIVE parse_digits(_, _)
parse_digits(s, acc) ==
    IF s = <<>> THEN acc
    ELSE IF ~IsDigit(Head(s)) THEN NoId
    ELSE LET v == acc * 10 + DigitVal(Head(s))
         IN  IF v > U32_MAX THEN NoId ELSE parse_digits(Tail(s), v)

\* NoId stands for Err(ParseIntError)
parse(s) ==
    LET digits == IF s # <<>> /\ Head(s) = "+" THEN Tail(s) ELSE s
    IN  IF digits = <<>> THEN NoId ELSE parse_digits(digits, 0)

make_path_string(token_id, path) == token_id \o <<",">> \o path

-----------------------------------------------------------------------------
(* UnorderedMap *)

EmptyMap == [k \in {} |-> NoId]

MapGet(m, k) == IF k \in DOMAIN m THEN m[k] ELSE NoId

MapInsert(m, k, v) == [x \in DOMAIN m \cup {k} |-> IF x = k THEN v ELSE m[x]]

MapRemove(m, k) == [x \in DOMAIN m \ {k} |-> m[x]]

-----------------------------------------------------------------------------
(* The contract state a handler works on, and a handler's outcome *)

State == [next_id |-> next_id, key_data |-> key_data, owner |-> owner]

\* err: "ok" or the reason of the panic; st: the state reached; ret: the
\* returned identifier or count; out: the promises the method returns.
Res(err, st, ret, out) == [err |-> err, st |-> st, ret |-> ret, out |-> out]

\* A panic discards every write of the method; a return keeps them.
Commit(pre, r) == IF r.err = "ok" THEN r.st ELSE pre

Sent(r) == IF r.err = "ok" THEN r.out ELSE {}

token_owner(st, token_id) ==
    IF token_id \in DOMAIN st.owner THEN st.owner[token_id] ELSE NoAccount

-----------------------------------------------------------------------------
(* impl NftKeyContract *)

\* Faulty variant: the counter is read but not advanced.
generate_id_reuse(st) ==
    IF st.next_id + 1 > U32_MAX
    THEN [err |-> "Overflow", st |-> st, id |-> NoId]
    ELSE [err |-> "ok", st |-> st, id |-> st.next_id]

\* Faulty variant: the counter wraps around at its maximum.
generate_id_wrapping(st) ==
    [err |-> "ok",
     st |-> [st EXCEPT !.next_id = (@ + 1) % (U32_MAX + 1)],
     id |-> st.next_id]

generate_id(st) ==
    IF st.next_id + 1 > U32_MAX
    THEN [err |-> "Overflow", st |-> st, id |-> NoId]
    ELSE [err |-> "ok", st |-> [st EXCEPT !.next_id = @ + 1], id |-> st.next_id]

\* Faulty variant: the storage registration of the caller is not looked at.
mint_unregistered(st, predecessor, registered) ==
    LET g == generate_id(st)
    IN  IF g.err # "ok" THEN Res(g.err, g.st, NoId, {})
        ELSE Res("ok", g.st, NoId,
                 {[id |-> g.id, predecessor |-> predecessor]})

\* registered: storage_balance_of(predecessor) is Some
mint(st, predecessor, registered) ==
    LET g == generate_id(st)
    IN  IF g.err # "ok" THEN Res(g.err, g.st, NoId, {})
        ELSE IF ~registered THEN Res("Unregistered", g.st, NoId, {})
        ELSE Res("ok", g.st, NoId,
                 {[id |-> g.id, predecessor |-> predecessor]})

\* The registry's mint_with_metadata: a token id is minted at most once.
mint_with_metadata(st, token_id, owner_id) ==
    IF token_id \in DOMAIN st.owner
    THEN [err |-> "TokenExists", st |-> st]
    ELSE [err |-> "ok",
          st |-> [st EXCEPT !.owner = MapInsert(@, token_id, owner_id)]]

\* Faulty variant: the token is minted without its key record.
mint_callback_no_key_data(st, id, predecessor, result, accounted) ==
    IF result = NoId THEN Res("RemoteFailure", st, NoId, {})
    ELSE LET m == mint_with_metadata(st, to_string(id), predecessor)
         IN  IF m.err # "ok" THEN Res(m.err, m.st, NoId, {})
             ELSE IF ~accounted THEN Res("InsufficientDeposit", m.st, NoId, {})
             ELSE Res("ok", m.st, id, {})

\* Faulty variant: a failed key request gives the reserved identifier back
\* to the counter.
mint_callback_release(st, id, predecessor, result, accounted) ==
    IF result = NoId THEN Res("ok", [st EXCEPT !.next_id = id], NoId, {})
    ELSE LET st1 == [st EXCEPT !.key_data =
                        MapInsert(@, id, [key_version |-> result,
                                          approvals |-> EmptyMap])]
             m == mint_with_metadata(st1, to_string(id), predecessor)
         IN  IF m.err # "ok" THEN Res(m.err, m.st, NoId, {})
             ELSE IF ~accounted THEN Res("InsufficientDeposit", m.st, NoId, {})
             ELSE Res("ok", m.st, id, {})

\* result: Ok(key version), or NoId for Err(PromiseError);
\* accounted: storage_accounting is Ok
mint_callback(st, id, predecessor, result, accounted) ==
    IF result = NoId THEN Res("RemoteFailure", st, NoId, {})
    ELSE LET st1 == [st EXCEPT !.key_data =
                        MapInsert(@, id, [key_version |-> result,
                                          approvals |-> EmptyMap])]
             m == mint_with_metadata(st1, to_string(id), predecessor)
         IN  IF m.err # "ok" THEN Res(m.err, m.st, NoId, {})
             ELSE IF ~accounted THEN Res("InsufficientDeposit", m.st, NoId, {})
             ELSE Res("ok", m.st, id, {})

\* Faulty variant: the key record is written back as a fresh one.
ckt_revoke_all_unchecked_rebuild(st, token_id) ==
    LET id == parse(token_id)
    IN  IF id = NoId THEN Res("NotFound", st, NoId, {})
        ELSE IF id \notin DOMAIN st.key_data THEN Res("ok", st, 0, {})
        ELSE Res("ok",
                 [st EXCEPT !.key_data[id] =
                                [key_version |-> 0, approvals |-> EmptyMap]],
                 Cardinality(DOMAIN st.key_data[id].approvals), {})

\* Faulty variant: the approvals are counted but not cleared.
ckt_revoke_all_unchecked_keep(st, token_id) ==
    LET id == parse(token_id)
    IN  IF id = NoId THEN Res("NotFound", st, NoId, {})
        ELSE IF id \notin DOMAIN st.key_data THEN Res("ok", st, 0, {})
        ELSE Res("ok", st, Cardinality(DOMAIN st.key_data[id].approvals), {})

ckt_revoke_all_unchecked(st, token_id) ==
    LET id == parse(token_id)
    IN  IF id = NoId THEN Res("NotFound", st, NoId, {})
        ELSE IF id \notin DOMAIN st.key_data THEN Res("ok", st, 0, {})
        ELSE Res("ok",
                 [st EXCEPT !.key_data[id].approvals = EmptyMap],
                 Cardinality(DOMAIN st.key_data[id].approvals), {})

-----------------------------------------------------------------------------
(* impl ChainKeyToken *)

assert_gt_one_yocto_near(deposit) == deposit >= 1

assert_one_yocto(deposit) == deposit = 1

\* Faulty variant: any stored approval of the caller authorizes, whatever
\* approval id is presented.
sign_authorized_any_approval(st, predecessor, token_id, id, approval_id) ==
    \/ token_owner(st, token_id) = predecessor
    \/ MapGet(st.key_data[id].approvals, predecessor) # NoId

\* The authorization test of ckt_sign_hash: owner, or stored approval zipped
\* with the presented one and compared.
sign_authorized(st, predecessor, token_id, id, approval_id) ==
    \/ token_owner(st, token_id) = predecessor
    \/ LET actual == MapGet(st.key_data[id].approvals, predecessor)
       IN  actual # NoId /\ approval_id # NoId /\ actual = approval_id

\* payload_fits: payload.try_into() is Ok
ckt_sign_hash(st, predecessor, deposit, token_id, path, payload_fits, approval_id) ==
    IF ~assert_gt_one_yocto_near(deposit)
    THEN Res("InsufficientDeposit", st, NoId, {})
    ELSE LET id == parse(token_id)
         IN  IF id = NoId THEN Res("NotFound", st, NoId, {})
             ELSE IF id \notin DOMAIN st.key_data THEN Res("NotFound", st, NoId, {})
             ELSE IF ~sign_authorized(st, predecessor, token_id, id, approval_id)
                  THEN Res("Unauthorized", st, NoId, {})
             ELSE IF ~payload_fits THEN Res("BadPayload", st, NoId, {})
             ELSE Res("ok", st, NoId,
                      {[caller |-> predecessor,
                        deposit |-> deposit,
                        path |-> make_path_string(token_id, path),
                        key_version |-> st.key_data[id].key_version]})

-----------------------------------------------------------------------------
(* impl NftKeyContract: callbacks and helpers *)

\* deposit and predecessor are those of the callback's own receipt; the
\* refund is a promise, sent only if the callback returns.
sign_callback(st, predecessor, deposit, result) ==
    LET refund == IF deposit > 0
                  THEN {[to |-> predecessor, amount |-> deposit]}
                  ELSE {}
    IN  IF result = PromiseError THEN Res("RemoteFailure", st, NoId, refund)
        ELSE Res("ok", st, NoId, refund)

\* Faulty variant: on a mismatch the removal is kept and the step returns.
ckt_approve_callback_best_effort(st, token_id, account_id, approval_id, result) ==
    IF result = "Ok(false)" THEN Res("ok", st, approval_id, {})
    ELSE IF token_id \notin DOMAIN st.key_data
         THEN Res("NotFound", st, NoId, {})
    ELSE Res("ok",
             [st EXCEPT !.key_data[token_id].approvals = MapRemove(@, account_id)],
             NoId, {})

\* result: "Ok(true)", "Ok(false)" or PromiseError
ckt_approve_callback(st, token_id, account_id, approval_id, result) ==
    IF result = "Ok(false)" THEN Res("ok", st, approval_id, {})
    ELSE IF token_id \notin DOMAIN st.key_data
         THEN Res("NotFound", st, NoId, {})
    ELSE LET ejected_id == MapGet(st.key_data[token_id].approvals, account_id)
             st1 == [st EXCEPT !.key_data[token_id].approvals =
                                   MapRemove(@, account_id)]
         IN  IF ejected_id # approval_id
             THEN Res("Inconsistent", st1, NoId, {})
             ELSE Res("ok", st1, NoId, {})

ckt_revoke_callback(st) == Res("ok", st, NoId, {})

\* Faulty variant: the token must have an owner, not the caller as its owner.
require_is_token_owner_exists(st, predecessor, token_id) ==
    token_owner(st, token_id) # NoAccount

require_is_token_owner(st, predecessor, token_id) ==
    token_owner(st, token_id) = predecessor

\* Faulty variant: an entry the delegate already has is not overwritten.
approve_keep_first(st, token_id, account_id) ==
    LET g == generate_id(st)
    IN  IF g.err # "ok" THEN Res(g.err, g.st, NoId, {})
        ELSE IF token_id \notin DOMAIN g.st.key_data
             THEN Res("NotFound", g.st, NoId, {})
        ELSE IF account_id \in DOMAIN g.st.key_data[token_id].approvals
             THEN Res("ok", g.st, g.id, {})
        ELSE Res("ok",
                 [g.st EXCEPT !.key_data[token_id].approvals =
                                  MapInsert(@, account_id, g.id)],
                 g.id, {})

approve(st, token_id, account_id) ==
    LET g == generate_id(st)
    IN  IF g.err # "ok" THEN Res(g.err, g.st, NoId, {})
        ELSE IF token_id \notin DOMAIN g.st.key_data
             THEN Res("NotFound", g.st, NoId, {})
        ELSE Res("ok",
                 [g.st EXCEPT !.key_data[token_id].approvals =
                                  MapInsert(@, account_id, g.id)],
                 g.id, {})

\* Faulty variant: the entry is read but left in the map.
revoke_keep(st, token_id, account_id) ==
    IF token_id \notin DOMAIN st.key_data THEN Res("ok", st, NoId, {})
    ELSE Res("ok", st, MapGet(st.key_data[token_id].approvals, account_id), {})

revoke(st, token_id, account_id) ==
    IF token_id \notin DOMAIN st.key_data THEN Res("ok", st, NoId, {})
    ELSE Res("ok",
             [st EXCEPT !.key_data[token_id].approvals = MapRemove(@, account_id)],
             MapGet(st.key_data[token_id].approvals, account_id), {})

-----------------------------------------------------------------------------
(* impl ChainKeyTokenApproval *)

ckt_approve(st, predecessor, deposit, token_id, account_id) ==
    IF ~assert_one_yocto(deposit) THEN Res("InsufficientDeposit", st, NoId, {})
    ELSE IF ~require_is_token_owner(st, predecessor, token_id)
         THEN Res("Unauthorized", st, NoId, {})
    ELSE IF parse(token_id) = NoId THEN Res("NotFound", st, NoId, {})
    ELSE approve(st, parse(token_id), account_id)

\* Faulty variant: the identifier is issued and the notice sent, but the
\* entry is not stored before the receiver answers.
ckt_approve_call_uncommitted(st, predecessor, deposit, token_id, account_id) ==
    IF ~assert_one_yocto(deposit) THEN Res("InsufficientDeposit", st, NoId, {})
    ELSE IF ~require_is_token_owner(st, predecessor, token_id)
         THEN Res("Unauthorized", st, NoId, {})
    ELSE IF parse(token_id) = NoId THEN Res("NotFound", st, NoId, {})
    ELSE LET a == approve(st, parse(token_id), account_id)
         IN  IF a.err # "ok" THEN a
             ELSE Res("ok", [st EXCEPT !.next_id = a.st.next_id], NoId,
                      {[token_id |-> parse(token_id),
                        account_id |-> account_id,
                        approval_id |-> a.ret]})

ckt_approve_call(st, predecessor, deposit, token_id, account_id) ==
    IF ~assert_one_yocto(deposit) THEN Res("InsufficientDeposit", st, NoId, {})
    ELSE IF ~require_is_token_owner(st, predecessor, token_id)
         THEN Res("Unauthorized", st, NoId, {})
    ELSE IF parse(token_id) = NoId THEN Res("NotFound", st, NoId, {})
    ELSE LET a == approve(st, parse(token_id), account_id)
         IN  IF a.err # "ok" THEN a
             ELSE Res("ok", a.st, NoId,
                      {[token_id |-> parse(token_id),
                        account_id |-> account_id,
                        approval_id |-> a.ret]})

\* ckt_revoke returns nothing: the identifier revoke() removed is dropped.
ckt_revoke(st, predecessor, deposit, token_id, account_id) ==
    IF ~assert_one_yocto(deposit) THEN Res("InsufficientDeposit", st, NoId, {})
    ELSE IF ~require_is_token_owner(st, predecessor, token_id)
         THEN Res("Unauthorized", st, NoId, {})
    ELSE IF parse(token_id) = NoId THEN Res("NotFound", st, NoId, {})
    ELSE Res("ok", revoke(st, parse(token_id), account_id).st, NoId, {})

\* Faulty variant: the notice is sent first and the entry is left for the
\* callback to remove.
ckt_revoke_call_deferred(st, predecessor, deposit, token_id, account_id) ==
    IF ~assert_one_yocto(deposit) THEN Res("InsufficientDeposit", st, NoId, {})
    ELSE IF ~require_is_token_owner(st, predecessor, token_id)
         THEN Res("Unauthorized", st, NoId, {})
    ELSE IF parse(token_id) = NoId THEN Res("NotFound", st, NoId, {})
    ELSE LET v == revoke(st, parse(token_id), account_id)
         IN  IF v.ret # NoId
             THEN Res("ok", st, NoId,
                      {[account_id |-> account_id,
                        token_id |-> token_id,
                        approval_id |-> v.ret]})
             ELSE Res("ok", st, NoId, {})

\* The notice carries the identifier revoke() removed; none removed, no notice.
ckt_revoke_call(st, predecessor, deposit, token_id, account_id) ==
    IF ~assert_one_yocto(deposit) THEN Res("InsufficientDeposit", st, NoId, {})
    ELSE IF ~require_is_token_owner(st, predecessor, token_id)
         THEN Res("Unauthorized", st, NoId, {})
    ELSE IF parse(token_id) = NoId THEN Res("NotFound", st, NoId, {})
    ELSE LET v == revoke(st, parse(token_id), account_id)
         IN  IF v.ret # NoId
             THEN Res("ok", v.st, NoId,
                      {[account_id |-> account_id,
                        token_id |-> token_id,
                        approval_id |-> v.ret]})
             ELSE Res("ok", v.st, NoId, {})

ckt_revoke_all(st, predecessor, deposit, token_id) ==
    IF ~assert_one_yocto(deposit) THEN Res("InsufficientDeposit", st, NoId, {})
    ELSE IF ~require_is_token_owner(st, predecessor, token_id)
         THEN Res("Unauthorized", st, NoId, {})
    ELSE ckt_revoke_all_unchecked(st, token_id)

\* A view: NoId stands for None, and for the panic on a malformed token id.
ckt_approval_id_for(st, token_id, account_id) ==
    LET id == parse(token_id)
    IN  IF id = NoId \/ id \notin DOMAIN st.key_data THEN NoId
        ELSE MapGet(st.key_data[id].approvals, account_id)

-----------------------------------------------------------------------------
(* Hooks around the registry's transfer and burn *)

\* f of the transfer hook: the registry moves the token to the receiver.
transfer_unchecked(st, token_id, receiver_id) ==
    [st EXCEPT !.owner[token_id] = receiver_id]

\* f of the burn hook: the registry forgets the tokens.
RECURSIVE burn_unchecked(_, _)
burn_unchecked(st, token_ids) ==
    IF token_ids = <<>> THEN st
    ELSE burn_unchecked([st EXCEPT !.owner = MapRemove(@, Head(token_ids))],
                        Tail(token_ids))

\* Faulty variant: the token is moved with its approvals.
transfer_hook_move_only(st, token_id, receiver_id) ==
    Res("ok", transfer_unchecked(st, token_id, receiver_id), NoId, {})

transfer_hook(st, token_id, receiver_id) ==
    LET c == ckt_revoke_all_unchecked(st, token_id)
    IN  IF c.err # "ok" THEN c
        ELSE Res("ok", transfer_unchecked(c.st, token_id, receiver_id), NoId, {})

RECURSIVE burn_hook_loop(_, _, _, _)
burn_hook_loop(st, predecessor, deposit, token_ids) ==
    IF token_ids = <<>> THEN Res("ok", st, NoId, {})
    ELSE LET c == ckt_revoke_all(st, predecessor, deposit, Head(token_ids))
         IN  IF c.err # "ok" THEN c
             ELSE burn_hook_loop(c.st, predecessor, deposit, Tail(token_ids))

burn_hook(st, predecessor, deposit, token_ids) ==
    LET c == burn_hook_loop(st, predecessor, deposit, token_ids)
    IN  IF c.err # "ok" THEN c
        ELSE Res("ok", burn_unchecked(c.st, token_ids), NoId, {})

-----------------------------------------------------------------------------
(* Inputs of the calls *)

\* The tokens of the registry, and the identifiers that have a key record
\* but no token any more, by their decimal form.
LiveTokenIds == DOMAIN owner

BurnedTokenIds == {to_string(i) : i \in DOMAIN key_data} \ DOMAIN owner

KnownTokenIds == LiveTokenIds \cup BurnedTokenIds

\* Strings that name no token: a live token's id with a leading zero, a
\* malformed one, and the decimal form of an identifier not handed out yet.
AliasTokenIds == {<<"0">> \o t : t \in LiveTokenIds}

OddTokenIds == {<<"x">>, to_string(next_id)}

ApprovalIdInputs == {NoId} \cup 0..(next_id - 1)

OnApprovedResults == {"Ok(true)", "Ok(false)", PromiseError}

IsOwner(caller, token_id) == token_id \in DOMAIN owner /\ owner[token_id] = caller

Other(c) == CHOOSE a \in Accounts : a # c

AnyCaller == CHOOSE a \in Accounts : TRUE

\* The calls of the approval methods that are tried, as <<caller, deposit,
\* token id, delegate>>. On a live token: every caller with every other
\* account as the delegate, and the owner with a wrong deposit. On the other
\* strings: the owner of the token the alias resembles, or some caller.
ApprovalCalls ==
    {in \in Accounts \X {1} \X LiveTokenIds \X Accounts : in[1] # in[4]}
        \cup {<<owner[t], d, t, Other(owner[t])>> :
                  d \in Deposits \ {1}, t \in LiveTokenIds}
        \cup {<<c, 1, t, Other(c)>> : c \in Accounts, t \in BurnedTokenIds}
        \cup {<<owner[t], 1, <<"0">> \o t, Other(owner[t])>> : t \in LiveTokenIds}
        \cup {<<AnyCaller, 1, t, Other(AnyCaller)>> : t \in OddTokenIds}

\* The calls of ckt_revoke_all that are tried, as <<caller, deposit, token id>>
RevokeAllCalls ==
    {<<c, 1, t>> : c \in Accounts, t \in KnownTokenIds}
        \cup {<<owner[t], d, t>> : d \in Deposits \ {1}, t \in LiveTokenIds}
        \cup {<<owner[t], 1, <<"0">> \o t>> : t \in LiveTokenIds}
        \cup {<<AnyCaller, 1, t>> : t \in OddTokenIds}

\* The approval id stored for the caller under the number the string parses to
StoredFor(c, t) ==
    IF parse(t) \in DOMAIN key_data
    THEN MapGet(key_data[parse(t)].approvals, c)
    ELSE NoId

\* The calls of ckt_sign_hash that are tried, as <<caller, deposit, token id,
\* path, payload fits, approval id>>. On a known token: every caller with
\* every approval id and with none; the owner also with another deposit, a
\* path, and a payload of the wrong length. On an alias: every caller with
\* no approval id and with the stored one. On the other strings: some caller.
SignCalls ==
    {<<c, 1, t, <<>>, TRUE, a>> :
         c \in Accounts, t \in KnownTokenIds, a \in ApprovalIdInputs}
        \cup UNION {{<<owner[t], 0, t, <<>>, TRUE, NoId>>,
                     <<owner[t], 2, t, <<>>, TRUE, NoId>>,
                     <<owner[t], 1, t, <<"p">>, TRUE, NoId>>,
                     <<owner[t], 1, t, <<>>, FALSE, NoId>>} : t \in LiveTokenIds}
        \cup UNION {{<<c, 1, t, <<>>, TRUE, NoId>>,
                     <<c, 1, t, <<>>, TRUE, StoredFor(c, t)>>} :
                        c \in Accounts, t \in AliasTokenIds}
        \cup {<<AnyCaller, 1, t, <<>>, TRUE, NoId>> : t \in OddTokenIds}

-----------------------------------------------------------------------------
(* History of the latest call *)

NoCall ==
    [op |-> "none", caller |-> NoAccount, token |-> <<>>, account |-> NoAccount,
     approval_id |-> NoId, deposit |-> 0, flag |-> "", err |-> "ok",
     ret |-> NoId, changed |-> FALSE, sent |-> 0, wasOwner |-> FALSE,
     stored |-> NoId, hadKey |-> FALSE, repeat |-> "no", clean |-> FALSE,
     refund_to |-> NoAccount, refund_amount |-> 0]

\* The same call made once more, right after it returned
Again(op, caller, deposit, token_id, account_id) ==
    /\ last.op = op /\ last.err = "ok"
    /\ last.caller = caller /\ last.deposit = deposit
    /\ last.token = token_id /\ last.account = account_id

\* The call as it arrives: its inputs, and what the registry and the key
\* record say about them before the handler runs.
Call(op, caller, token, account, approval_id, deposit, flag) ==
    [NoCall EXCEPT
        !.op = op, !.caller = caller, !.token = token, !.account = account,
        !.approval_id = approval_id, !.deposit = deposit, !.flag = flag,
        !.wasOwner = IsOwner(caller, token),
        !.hadKey = (parse(token) \in DOMAIN key_data),
        !.stored = IF parse(token) \in DOMAIN key_data
                   THEN MapGet(key_data[parse(token)].approvals, account)
                   ELSE NoId,
        !.repeat = IF Again(op, caller, deposit, token, account)
                   THEN IF last.changed THEN "afterChange" ELSE "afterNoop"
                   ELSE "no"]

Outcome(call, r) ==
    [call EXCEPT
        !.err = r.err,
        !.ret = IF r.err = "ok" THEN r.ret ELSE NoId,
        !.changed = (Commit(State, r) # State),
        !.sent = Cardinality(Sent(r))]

\* The history of a call is dropped before the next call is taken. The
\* answers of the signer and of a revoked delegate are taken first: their
\* callbacks, sign_callback and ckt_revoke_callback, take &self and read
\* nothing of the contract, so their place among the calls changes nothing.
Ready == last.op = "none" /\ pendingSign = {} /\ pendingRevoke = {}

InFlight == Cardinality(pendingMint) + Cardinality(pendingApprove)

\* No more than MaxPending promises that change the contract are in flight.
Room(r) == Sent(r) # {} => InFlight < MaxPending

\* The contract state after the call
Store(r) ==
    /\ next_id' = Commit(State, r).next_id
    /\ key_data' = Commit(State, r).key_data
    /\ owner' = Commit(State, r).owner

\* A committed operation on token id leaves no pending approve_call of that
\* token undisturbed.
Touch(pa, r, id) ==
    IF r.err # "ok" THEN pa
    ELSE {[p EXCEPT !.clean = IF p.token_id = id THEN FALSE ELSE @] : p \in pa}

\* The approval ids handed out for token id so far
GrantedFor(id) ==
    {issued[i].id : i \in {j \in 1..Len(issued) :
                              issued[j].kind = "approval" /\ issued[j].token = id}}

GrantSet(g, r, id, account_id, approval_id) ==
    IF r.err # "ok" THEN g
    ELSE MapInsert(g, id, MapInsert(IF id \in DOMAIN g THEN g[id] ELSE EmptyMap,
                                    account_id, approval_id))

GrantDrop(g, r, id, account_id) ==
    IF r.err # "ok" \/ id \notin DOMAIN g THEN g
    ELSE [g EXCEPT ![id] = MapRemove(@, account_id)]

GrantClear(g, r, id) ==
    IF r.err # "ok" \/ id \notin DOMAIN g THEN g
    ELSE [g EXCEPT ![id] = EmptyMap]

-----------------------------------------------------------------------------
(* Initial state: NftKeyContract::new *)

Init ==
    /\ next_id = 0
    /\ key_data = EmptyMap
    /\ owner = EmptyMap
    /\ pendingMint = {}
    /\ pendingApprove = {}
    /\ pendingRevoke = {}
    /\ pendingSign = {}
    /\ issued = <<>>
    /\ granted = EmptyMap
    /\ stale = {}
    /\ last = NoCall

-----------------------------------------------------------------------------
(* Actions: one per public method, callback and registry operation *)

Mint ==
    /\ Ready
    /\ Len(issued) < MaxIssued
    /\ \E caller \in Accounts, registered \in BOOLEAN :
        LET r == mint(State, caller, registered)
            call == Call("mint", caller, <<>>, NoAccount, NoId, 0,
                         IF registered THEN "registered" ELSE "unregistered")
            id == IF Sent(r) = {} THEN NoId ELSE (CHOOSE p \in Sent(r) : TRUE).id
        IN  /\ Room(r)
            /\ Store(r)
            /\ pendingMint' = pendingMint \cup Sent(r)
            /\ issued' = IF Sent(r) = {} THEN issued
                         ELSE Append(issued, [id |-> id, kind |-> "token",
                                              token |-> id,
                                              account |-> NoAccount])
            /\ last' = [Outcome(call, r) EXCEPT !.ret = id]
            /\ UNCHANGED <<pendingApprove, pendingRevoke, pendingSign, granted,
                           stale>>

MintCallback ==
    /\ Ready
    /\ \E p \in pendingMint, result \in KeyVersions \cup {NoId},
          accounted \in BOOLEAN :
        LET r == mint_callback(State, p.id, p.predecessor, result, accounted)
            call == Call("mint_callback", CurrentAccount, to_string(p.id),
                         p.predecessor, NoId, 0,
                         IF result = NoId THEN PromiseError
                         ELSE IF accounted THEN "accounted" ELSE "unaccounted")
        IN  /\ result = NoId => accounted
            /\ Store(r)
            /\ pendingMint' = pendingMint \ {p}
            /\ last' = Outcome(call, r)
            /\ UNCHANGED <<pendingApprove, pendingRevoke, pendingSign, issued,
                           granted, stale>>

CktApprove ==
    /\ Ready
    /\ Len(issued) < MaxIssued
    /\ \E in \in ApprovalCalls :
        LET caller == in[1]
            deposit == in[2]
            token_id == in[3]
            account_id == in[4]
            r == ckt_approve(State, caller, deposit, token_id, account_id)
            call == Call("approve", caller, token_id, account_id, NoId, deposit, "")
        IN  /\ Store(r)
            /\ pendingApprove' = Touch(pendingApprove, r, parse(token_id))
            /\ issued' = IF r.err = "ok"
                         THEN Append(issued, [id |-> r.ret, kind |-> "approval",
                                              token |-> parse(token_id),
                                              account |-> account_id])
                         ELSE issued
            /\ granted' = GrantSet(granted, r, parse(token_id), account_id, r.ret)
            /\ last' = Outcome(call, r)
            /\ UNCHANGED <<pendingMint, pendingRevoke, pendingSign, stale>>

CktApproveCall ==
    /\ Ready
    /\ Len(issued) < MaxIssued
    /\ \E in \in ApprovalCalls :
        LET caller == in[1]
            deposit == in[2]
            token_id == in[3]
            account_id == in[4]
            r == ckt_approve_call(State, caller, deposit, token_id, account_id)
            call == Call("approve_call", caller, token_id, account_id, NoId,
                         deposit, "")
            new == {[token_id |-> p.token_id, account_id |-> p.account_id,
                     approval_id |-> p.approval_id, clean |-> TRUE] : p \in Sent(r)}
            id == IF Sent(r) = {} THEN NoId
                  ELSE (CHOOSE p \in Sent(r) : TRUE).approval_id
        IN  /\ Sent(r) # {} => InFlight < MaxPending
            /\ Store(r)
            /\ pendingApprove' = Touch(pendingApprove, r, parse(token_id)) \cup new
            /\ issued' = IF r.err = "ok"
                         THEN Append(issued, [id |-> id, kind |-> "approval",
                                              token |-> parse(token_id),
                                              account |-> account_id])
                         ELSE issued
            /\ granted' = GrantSet(granted, r, parse(token_id), account_id, id)
            /\ last' = [Outcome(call, r) EXCEPT !.ret = id]
            /\ UNCHANGED <<pendingMint, pendingRevoke, pendingSign, stale>>

CktApproveCallback ==
    /\ Ready
    /\ \E p \in pendingApprove, result \in OnApprovedResults :
        LET r == ckt_approve_callback(State, p.token_id, p.account_id,
                                      p.approval_id, result)
            call == Call("approve_callback", CurrentAccount, to_string(p.token_id),
                         p.account_id, p.approval_id, 0, result)
        IN  /\ Store(r)
            /\ pendingApprove' = Touch(pendingApprove \ {p}, r, p.token_id)
            /\ granted' =
                   IF /\ result = "Ok(false)"
                      /\ p.token_id \in DOMAIN granted
                      /\ MapGet(granted[p.token_id], p.account_id) = p.approval_id
                   THEN [granted EXCEPT ![p.token_id] = MapRemove(@, p.account_id)]
                   ELSE granted
            /\ last' = [Outcome(call, r) EXCEPT !.clean = p.clean]
            /\ UNCHANGED <<pendingMint, pendingRevoke, pendingSign, issued, stale>>

CktRevoke ==
    /\ \E in \in ApprovalCalls :
        LET caller == in[1]
            deposit == in[2]
            token_id == in[3]
            account_id == in[4]
            r == ckt_revoke(State, caller, deposit, token_id, account_id)
            call == Call("revoke", caller, token_id, account_id, NoId, deposit, "")
        IN  /\ Ready \/ Again("revoke", caller, deposit, token_id, account_id)
            /\ Store(r)
            /\ pendingApprove' = Touch(pendingApprove, r, parse(token_id))
            /\ granted' = GrantDrop(granted, r, parse(token_id), account_id)
            /\ last' = Outcome(call, r)
            /\ UNCHANGED <<pendingMint, pendingRevoke, pendingSign, issued, stale>>

CktRevokeCall ==
    /\ \E in \in ApprovalCalls :
        LET caller == in[1]
            deposit == in[2]
            token_id == in[3]
            account_id == in[4]
            r == ckt_revoke_call(State, caller, deposit, token_id, account_id)
            call == Call("revoke_call", caller, token_id, account_id, NoId,
                         deposit, "")
        IN  /\ Ready \/ Again("revoke_call", caller, deposit, token_id, account_id)
            /\ Store(r)
            /\ pendingApprove' = Touch(pendingApprove, r, parse(token_id))
            /\ pendingRevoke' = pendingRevoke \cup Sent(r)
            /\ granted' = GrantDrop(granted, r, parse(token_id), account_id)
            /\ last' = [Outcome(call, r) EXCEPT
                           !.ret = IF Sent(r) = {} THEN NoId
                                   ELSE (CHOOSE n \in Sent(r) : TRUE).approval_id]
            /\ UNCHANGED <<pendingMint, pendingSign, issued, stale>>

CktRevokeCallback ==
    /\ \E p \in pendingRevoke, result \in {"Ok", PromiseError} :
        LET r == ckt_revoke_callback(State)
            call == Call("revoke_callback", CurrentAccount, p.token_id,
                         p.account_id, p.approval_id, 0, result)
        IN  /\ Store(r)
            /\ pendingRevoke' = pendingRevoke \ {p}
            /\ last' = Outcome(call, r)
            /\ UNCHANGED <<pendingMint, pendingApprove, pendingSign, issued,
                           granted, stale>>

CktRevokeAll ==
    /\ Ready
    /\ \E in \in RevokeAllCalls :
        LET caller == in[1]
            deposit == in[2]
            token_id == in[3]
            r == ckt_revoke_all(State, caller, deposit, token_id)
            call == Call("revoke_all", caller, token_id, NoAccount, NoId, deposit, "")
        IN  /\ Store(r)
            /\ pendingApprove' = Touch(pendingApprove, r, parse(token_id))
            /\ granted' = GrantClear(granted, r, parse(token_id))
            /\ last' = Outcome(call, r)
            /\ UNCHANGED <<pendingMint, pendingRevoke, pendingSign, issued, stale>>

CktSignHash ==
    /\ Ready
    /\ \E in \in SignCalls :
        LET caller == in[1]
            deposit == in[2]
            token_id == in[3]
            path == in[4]
            payload_fits == in[5]
            approval_id == in[6]
            r == ckt_sign_hash(State, caller, deposit, token_id, path,
                               payload_fits, approval_id)
            call == Call("sign_hash", caller, token_id, caller, approval_id,
                         deposit, IF payload_fits THEN "fits" ELSE "misfit")
        IN  /\ Store(r)
            /\ pendingSign' = pendingSign \cup Sent(r)
            /\ last' = Outcome(call, r)
            /\ UNCHANGED <<pendingMint, pendingApprove, pendingRevoke, issued,
                           granted, stale>>

\* The callback's receipt comes from the contract itself and carries the
\* deposit attached to the callback, which ckt_sign_hash leaves at zero.
SignCallback ==
    /\ \E p \in pendingSign, result \in {"Ok", PromiseError} :
        LET r == sign_callback(State, CurrentAccount, CallbackDeposit, result)
            call == Call("sign_callback", CurrentAccount, <<>>, p.caller, NoId,
                         p.deposit, result)
        IN  /\ Store(r)
            /\ pendingSign' = pendingSign \ {p}
            /\ last' = [Outcome(call, r) EXCEPT
                           !.refund_to = IF Sent(r) = {} THEN NoAccount
                                         ELSE (CHOOSE t \in Sent(r) : TRUE).to,
                           !.refund_amount = IF Sent(r) = {} THEN 0
                                             ELSE (CHOOSE t \in Sent(r) : TRUE).amount]
            /\ UNCHANGED <<pendingMint, pendingApprove, pendingRevoke, issued,
                           granted, stale>>

\* nft_transfer: the registry admits the owner, or an account the owner has
\* approved in the registry (NEP-178); the hook then wraps the move.
NftTransfer ==
    /\ Ready
    /\ \E sender \in Accounts, token_id \in DOMAIN owner, receiver \in Accounts :
        LET r == transfer_hook(State, token_id, receiver)
            call == Call("transfer", sender, token_id, receiver, NoId, 1, "")
        IN  /\ receiver # owner[token_id]
            /\ Store(r)
            /\ pendingApprove' = Touch(pendingApprove, r, parse(token_id))
            /\ granted' = GrantClear(granted, r, parse(token_id))
            /\ stale' = IF r.err = "ok"
                        THEN stale \cup GrantedFor(parse(token_id))
                        ELSE stale
            /\ last' = Outcome(call, r)
            /\ UNCHANGED <<pendingMint, pendingRevoke, pendingSign, issued>>

\* Burn of one of the caller's tokens through the registry; the hook wraps it.
NftBurn ==
    /\ Ready
    /\ \E caller \in Accounts, deposit \in Deposits, token_id \in DOMAIN owner :
        LET r == burn_hook(State, caller, deposit, <<token_id>>)
            call == Call("burn", caller, token_id, NoAccount, NoId, deposit, "")
        IN  /\ owner[token_id] = caller
            /\ Store(r)
            /\ pendingApprove' = Touch(pendingApprove, r, parse(token_id))
            /\ granted' = GrantClear(granted, r, parse(token_id))
            /\ last' = Outcome(call, r)
            /\ UNCHANGED <<pendingMint, pendingRevoke, pendingSign, issued, stale>>

Discard ==
    /\ last.op # "none"
    /\ pendingSign = {} /\ pendingRevoke = {}
    /\ last' = NoCall
    /\ UNCHANGED <<next_id, key_data, owner, pendingMint, pendingApprove,
                   pendingRevoke, pendingSign, issued, granted, stale>>

Next ==
    \/ Discard
    \/ Mint
    \/ MintCallback
    \/ CktApprove
    \/ CktApproveCall
    \/ CktApproveCallback
    \/ CktRevoke
    \/ CktRevokeCall
    \/ CktRevokeCallback
    \/ CktRevokeAll
    \/ CktSignHash
    \/ SignCallback
    \/ NftTransfer
    \/ NftBurn

Spec == Init /\ [][Next]_vars

\* The contract after U32_MAX - 2 mints whose signer answer was an error:
\* each took an identifier from the counter and left nothing else behind.
\* The history starts here.
InitNearMax ==
    /\ next_id = U32_MAX - 2
    /\ key_data = EmptyMap
    /\ owner = EmptyMap
    /\ pendingMint = {}
    /\ pendingApprove = {}
    /\ pendingRevoke = {}
    /\ pendingSign = {}
    /\ issued = <<>>
    /\ granted = EmptyMap
    /\ stale = {}
    /\ last = NoCall

SpecNearMax == InitNearMax /\ [][Next]_vars

-----------------------------------------------------------------------------
(* Properties *)

ApprovalOps == {"approve", "approve_call", "revoke", "revoke_call", "revoke_all"}

\* The approvals stored for the token the string parses to
ApprovalsOf(token_id) ==
    IF parse(token_id) \in DOMAIN key_data
    THEN key_data[parse(token_id)].approvals
    ELSE EmptyMap

\* What the latest ckt_sign_hash call should be granted: the caller owned the
\* token, or presented exactly the approval id stored for it.
SignAllowed ==
    \/ last.wasOwner
    \/ last.approval_id # NoId /\ last.approval_id = last.stored

\* C1: for a token with a key record and a caller attaching the deposit,
\* ckt_sign_hash is authorized if and only if the caller is the owner
\* (whatever approval id is given) or presents exactly the approval id stored
\* for it; otherwise the call fails with Unauthorized and nothing is sent to
\* the signer. An authorized call with a well-formed payload sends one request.
C1_SignAuthorizedIffOwnerOrMatchingApproval ==
    (last.op = "sign_hash" /\ last.hadKey /\ last.deposit >= 1) =>
        /\ SignAllowed <=> last.err # "Unauthorized"
        /\ ~SignAllowed => last.sent = 0 /\ ~last.changed
        /\ (SignAllowed /\ last.flag = "fits") => last.err = "ok" /\ last.sent = 1

\* C1 witness: a delegate signs with the approval id stored for it.
C1_Witness_DelegateSigns ==
    /\ last.op = "sign_hash" /\ ~last.wasOwner
    /\ last.stored # NoId /\ last.approval_id = last.stored
    /\ last.err = "ok" /\ last.sent = 1

\* C2: right after a successful transfer of a token its approval set is
\* empty, whoever sent the transfer and whatever was approved before; the
\* clearing step asks for no owner and leaves the owner as it was, the move
\* coming after it.
C2_TransferClearsApprovals ==
    /\ (last.op = "transfer" /\ last.err = "ok") =>
           /\ ApprovalsOf(last.token) = EmptyMap
           /\ \A d \in Accounts : ckt_approval_id_for(State, last.token, d) = NoId
           /\ token_owner(State, last.token) = last.account
    /\ \A t \in DOMAIN owner :
           LET c == ckt_revoke_all_unchecked(State, t)
           IN  /\ c.err = "ok"
               /\ c.st.owner = owner
               /\ c.st.key_data[parse(t)].approvals = EmptyMap

\* C2 witness: a transfer sent by an account that is not the owner, to an
\* account that held an approval of the token, has cleared the approvals.
C2_Witness_TransferByNonOwner ==
    /\ last.op = "transfer" /\ last.err = "ok"
    /\ ~last.wasOwner /\ last.stored # NoId
    /\ ApprovalsOf(last.token) = EmptyMap

\* C3: an approval id granted before a transfer of its token authorizes no
\* later ckt_sign_hash of a caller that is not the owner: no such id is
\* stored any more, and a call presenting one is rejected and sends nothing.
C3_NoApprovalSurvivesTransfer ==
    /\ \A id \in DOMAIN key_data : \A d \in DOMAIN key_data[id].approvals :
           key_data[id].approvals[d] \notin stale
    /\ (last.op = "sign_hash" /\ ~last.wasOwner /\ last.approval_id \in stale) =>
           last.err # "ok" /\ last.sent = 0

\* C3 witness: a caller that is not the owner presents an approval id granted
\* before a transfer of the token, with the deposit, and is turned away.
C3_Witness_StaleApprovalRejected ==
    /\ last.op = "sign_hash" /\ ~last.wasOwner /\ last.hadKey
    /\ last.deposit >= 1 /\ last.token \in DOMAIN owner
    /\ last.approval_id \in stale
    /\ last.approval_id \in GrantedFor(parse(last.token))
    /\ last.err = "Unauthorized"

\* C4: after ckt_approve_call with nothing else done on the token before the
\* callback, the receiver answering false leaves no approval for the
\* delegate, and the receiver answering true leaves the issued approval id.
C4_ReceiverAnswerDecides ==
    (last.op = "approve_callback" /\ last.clean) =>
        /\ last.flag = "Ok(false)" =>
               ckt_approval_id_for(State, last.token, last.account) = NoId
        /\ last.flag = "Ok(true)" =>
               ckt_approval_id_for(State, last.token, last.account) = last.approval_id

\* C5: in every state, ckt_approval_id_for(T, D) is the id that an approve or
\* approve_call granted to D on T and that no revoke, revoke_all, transfer,
\* burn or rejection by the receiver has removed since, and none otherwise.
C5_ApprovalsAreStandingGrants ==
    \A id \in DOMAIN key_data, d \in Accounts :
        ckt_approval_id_for(State, to_string(id), d) =
            (IF id \in DOMAIN granted THEN MapGet(granted[id], d) ELSE NoId)

\* C6: the identifiers handed out by the counter, to mint and to approve
\* alike, strictly increase in the order of the calls (so are pairwise
\* distinct) and lie below the counter; every token and key record carries an
\* identifier handed to a mint, every stored approval one handed to an approve.
C6_IssuedIdsStrictlyIncrease ==
    /\ \A i, j \in 1..Len(issued) : i < j => issued[i].id < issued[j].id
    /\ \A i \in 1..Len(issued) : issued[i].id >= 0 /\ issued[i].id < next_id
    /\ \A id \in DOMAIN key_data :
           \E i \in 1..Len(issued) : issued[i].kind = "token" /\ issued[i].id = id
    /\ \A t \in DOMAIN owner :
           \E i \in 1..Len(issued) :
               issued[i].kind = "token" /\ to_string(issued[i].id) = t
    /\ \A p \in pendingMint :
           \E i \in 1..Len(issued) : issued[i].kind = "token" /\ issued[i].id = p.id
    /\ \A id \in DOMAIN key_data : \A d \in DOMAIN key_data[id].approvals :
           \E i \in 1..Len(issued) :
               issued[i].kind = "approval" /\ issued[i].id = key_data[id].approvals[d]

\* C6 witness: two mints and then an approve; the callback of the second
\* mint ran while the first mint still waits, and the approval stands on the
\* second token.
C6_Witness_MintsAroundApprove ==
    /\ Len(issued) = 3
    /\ issued[1].kind = "token" /\ issued[2].kind = "token"
    /\ issued[3].kind = "approval" /\ issued[3].token = issued[2].id
    /\ to_string(issued[2].id) \in DOMAIN owner
    /\ \E p \in pendingMint : p.id = issued[1].id
    /\ \E d \in Accounts : MapGet(key_data[issued[2].id].approvals, d) = issued[3].id

\* C7: the callback of a sign request refunds the whole deposit of the
\* ckt_sign_hash call to the caller of ckt_sign_hash, whether the signer
\* succeeded or failed.
C7_SignCallbackRefundsCaller ==
    last.op = "sign_callback" =>
        last.refund_to = last.account /\ last.refund_amount = last.deposit

\* C8: ckt_approve, ckt_approve_call, ckt_revoke, ckt_revoke_call and
\* ckt_revoke_all take effect only for the caller the registry names as the
\* token's owner when the call is made: any other caller is rejected with
\* Unauthorized (once the deposit is right), changes nothing and sends nothing.
C8_ApprovalOpsOnlyByCurrentOwner ==
    (last.op \in ApprovalOps /\ ~last.wasOwner) =>
        /\ last.err # "ok" /\ ~last.changed /\ last.sent = 0
        /\ last.deposit = 1 => last.err = "Unauthorized"

\* C8 witness: a delegate holding an approval of the token calls
\* ckt_revoke_all on it and is rejected.
C8_Witness_DelegateRejected ==
    /\ last.op = "revoke_all" /\ ~last.wasOwner
    /\ last.token \in DOMAIN owner
    /\ MapGet(ApprovalsOf(last.token), last.caller) # NoId
    /\ last.err = "Unauthorized"

\* The latest call fails one of the checks made before anything is done
FailsCheck ==
    \/ last.op = "mint" /\ last.flag = "unregistered"
    \/ last.op \in ApprovalOps /\ (last.deposit # 1 \/ ~last.wasOwner)
    \/ last.op = "sign_hash" /\ (last.deposit < 1 \/ ~last.hadKey \/ ~SignAllowed)

\* C9: a call of mint, of an approval method or of ckt_sign_hash that fails a
\* check of the caller or of the input (not the owner and no matching
\* approval, not registered for storage, unknown or malformed token id,
\* deposit missing) is rejected, leaves the counter, the key records and the
\* approvals as they were, and sends no promise.
C9_FailedCheckChangesNothing ==
    FailsCheck => last.err # "ok" /\ ~last.changed /\ last.sent = 0

\* C9 witness: a mint by a caller not registered for storage is rejected in
\* a state where the counter has advanced before.
C9_Witness_UnregisteredMint ==
    /\ last.op = "mint" /\ last.flag = "unregistered"
    /\ last.err = "Unregistered" /\ next_id > 0

C11_KeyDataIffToken ==
    \A i \in 0..(next_id - 1) :
        i \in DOMAIN key_data <=> to_string(i) \in DOMAIN owner

\* C11 amended: every token has a key record under its own identifier;
\* mint_callback creates the two together and, when the signer or the
\* storage accounting fails, neither; a burn removes the token and leaves
\* its key record in place with no approvals, and a key record without a
\* token never has approvals.
C11_TokenHasKeyData ==
    /\ \A t \in DOMAIN owner :
           parse(t) \in DOMAIN key_data /\ to_string(parse(t)) = t
    /\ \A i \in DOMAIN key_data :
           to_string(i) \notin DOMAIN owner => key_data[i].approvals = EmptyMap
    /\ last.op = "mint_callback" =>
           IF last.err = "ok"
           THEN /\ parse(last.token) \in DOMAIN key_data
                /\ token_owner(State, last.token) = last.account
                /\ last.changed
           ELSE /\ parse(last.token) \notin DOMAIN key_data
                /\ last.token \notin DOMAIN owner
                /\ ~last.changed
    /\ (last.op = "burn" /\ last.err = "ok") =>
           /\ last.token \notin DOMAIN owner
           /\ parse(last.token) \in DOMAIN key_data

\* C11 witness: a token was burned and its key record is still there.
C11_Witness_KeyDataAfterBurn ==
    /\ last.op = "burn" /\ last.err = "ok"
    /\ last.token \notin DOMAIN owner
    /\ parse(last.token) \in DOMAIN key_data

\* The identifiers reserved by a mint whose callback has run and failed: no
\* callback is waiting for them and no key record was written for them.
FailedMints ==
    {issued[i].id : i \in {j \in 1..Len(issued) : issued[j].kind = "token"}}
        \ ({p.id : p \in pendingMint} \cup DOMAIN key_data)

\* C12, in a state: a mint by a registered caller takes the counter's value
\* and advances it at the call, while the key request is still unanswered;
\* when the request fails, the callback writes nothing and the counter stays
\* above the reserved identifier, which names no token, no key record and no
\* approval, and was handed out once.
ReservationBurned ==
    /\ (last.op = "mint" /\ last.err = "ok") =>
           /\ last.ret = next_id - 1
           /\ \E p \in pendingMint : p.id = last.ret
           /\ last.ret \notin DOMAIN key_data
           /\ to_string(last.ret) \notin DOMAIN owner
    /\ (last.op = "mint_callback" /\ last.flag = PromiseError) =>
           /\ last.err = "RemoteFailure" /\ ~last.changed
           /\ parse(last.token) \in FailedMints
    /\ \A id \in FailedMints :
           /\ id < next_id
           /\ to_string(id) \notin DOMAIN owner
           /\ Cardinality({i \in 1..Len(issued) : issued[i].id = id}) = 1
           /\ \A t \in DOMAIN key_data, d \in Accounts :
                  MapGet(key_data[t].approvals, d) # id

\* C12, in a step: the counter never goes back, and an identifier whose mint
\* failed stays without token and key record.
ReservationStaysBurned ==
    /\ next_id' >= next_id
    /\ FailedMints \subseteq FailedMints'

\* C12: mint reserves the next identifier at the call; if the key request
\* fails, no token and no key record is ever created for it, the counter is
\* not rolled back, and no later mint or approve is handed that identifier.
C12_FailedMintBurnsIdentifier ==
    []ReservationBurned /\ [][ReservationStaysBurned]_vars

\* C12 witness: a mint failed at the signer, and a later mint was handed a
\* larger identifier and completed.
C12_Witness_LaterMintAfterFailure ==
    \E id \in FailedMints :
        \E t \in DOMAIN key_data : t > id /\ to_string(t) \in DOMAIN owner

\* C13, in a state: ckt_revoke_call by the owner has removed the delegate's
\* entry when it returns; it sends a notice exactly when an entry was
\* removed, and the notice names the delegate and the removed identifier;
\* ckt_revoke_callback, whatever the notice's outcome, writes nothing and
\* the delegate is still without approval after it.
RevokeCallRemovesFirst ==
    /\ (last.op = "revoke_call" /\ last.wasOwner /\ last.deposit = 1) =>
           /\ last.err = "ok"
           /\ ckt_approval_id_for(State, last.token, last.account) = NoId
           /\ last.sent = (IF last.stored # NoId THEN 1 ELSE 0)
           /\ last.stored # NoId =>
                  [account_id |-> last.account, token_id |-> last.token,
                   approval_id |-> last.stored] \in pendingRevoke
    /\ \A n \in pendingRevoke :
           /\ n.approval_id # NoId
           /\ ckt_approval_id_for(State, n.token_id, n.account_id) = NoId
    /\ last.op = "revoke_callback" =>
           /\ last.err = "ok" /\ ~last.changed
           /\ ckt_approval_id_for(State, last.token, last.account) = NoId

\* C13, in a step: a delegate without approval on a token gets one only by
\* a ckt_approve or ckt_approve_call naming that token and that delegate.
OnlyApproveAddsEntry ==
    \A id \in DOMAIN key_data, d \in Accounts :
        (/\ MapGet(key_data[id].approvals, d) = NoId
         /\ id \in DOMAIN key_data'
         /\ MapGet(key_data'[id].approvals, d) # NoId)
            => /\ last'.op \in {"approve", "approve_call"}
               /\ parse(last'.token) = id
               /\ last'.account = d

\* C13: ckt_revoke_call removes the entry in the step of the call, before
\* the notice goes out; the notice is sent only for a removed entry and
\* carries its identifier; no outcome of the notice puts the entry back, and
\* the pair stays unapproved until a new approve.
C13_RevokeCallIsNotUndone ==
    []RevokeCallRemovesFirst /\ [][OnlyApproveAddsEntry]_vars

\* C13 witness: the notice of a revoke that removed an entry failed, and
\* the delegate is without approval after the callback.
C13_Witness_FailedNoticeAfterRevoke ==
    /\ last.op = "revoke_callback" /\ last.flag = PromiseError
    /\ last.approval_id # NoId
    /\ ckt_approval_id_for(State, last.token, last.account) = NoId

\* C14: when ckt_approve_callback returns the issued identifier (the
\* approval is reported as kept), that identifier is the one stored for the
\* delegate in the resulting state, whatever was done on the token between
\* ckt_approve_call and the callback.
C14_KeptMeansStored ==
    (last.op = "approve_callback" /\ last.err = "ok" /\ last.ret # NoId) =>
        ckt_approval_id_for(State, last.token, last.account) = last.ret

\* C15: with nothing else done on the token before the callback, the
\* approval of ckt_approve_call is gone after the callback only if the
\* receiver answered false; after a failed notice it is still stored with
\* the issued identifier.
C15_FailedNoticeKeepsApproval ==
    (last.op = "approve_callback" /\ last.clean) =>
        /\ last.flag = PromiseError =>
               ckt_approval_id_for(State, last.token, last.account) = last.approval_id
        /\ ckt_approval_id_for(State, last.token, last.account) = NoId =>
               last.flag = "Ok(false)"

\* C16: when ckt_approve_callback goes to remove the delegate's entry (the
\* answer is not Ok(false)) and the entry is absent or holds another
\* identifier than the one its ckt_approve_call issued, it aborts as
\* Inconsistent and every part of the contract state is as before the
\* callback: an approval granted to the delegate in the meantime stays.
C16_InconsistentAbortChangesNothing ==
    /\ (last.op = "approve_callback" /\ last.flag # "Ok(false)"
            /\ last.stored # last.approval_id) =>
           /\ last.err = "Inconsistent"
           /\ ~last.changed
           /\ ckt_approval_id_for(State, last.token, last.account) = last.stored
    /\ (last.op = "approve_callback" /\ last.err = "Inconsistent") =>
           /\ last.stored # last.approval_id
           /\ ~last.changed

\* C16 witness: the delegate was approved again while the notice was
\* pending; the callback aborted and the newer approval is still stored.
C16_Witness_NewerApprovalKept ==
    /\ last.op = "approve_callback" /\ last.err = "Inconsistent"
    /\ last.stored # NoId /\ last.stored > last.approval_id
    /\ ckt_approval_id_for(State, last.token, last.account) = last.stored

\* The approval ids handed out for a token and a delegate so far
IssuedFor(id, d) ==
    {issued[i].id : i \in {j \in 1..Len(issued) :
                               /\ issued[j].kind = "approval"
                               /\ issued[j].token = id
                               /\ issued[j].account = d}}

Newest(ids) == CHOOSE m \in ids : \A x \in ids : x <= m

\* C17: a delegate has at most one approval on a token, the newest one
\* issued for the pair: ckt_approve or ckt_approve_call on a pair that has
\* an approval replaces the stored identifier by the new one; a
\* ckt_sign_hash of the delegate presenting an earlier identifier of the
\* pair fails with Unauthorized, and one that is authorized presents the
\* newest.
C17_NewestApprovalOnly ==
    /\ \A id \in DOMAIN key_data : \A d \in DOMAIN key_data[id].approvals :
           /\ IssuedFor(id, d) # {}
           /\ key_data[id].approvals[d] = Newest(IssuedFor(id, d))
    /\ (last.op \in {"approve", "approve_call"} /\ last.err = "ok") =>
           /\ ckt_approval_id_for(State, last.token, last.account) = last.ret
           /\ last.ret > last.stored
    /\ (last.op = "sign_hash" /\ ~last.wasOwner /\ last.hadKey /\ last.deposit >= 1) =>
           LET ids == IssuedFor(parse(last.token), last.caller)
           IN  /\ (last.approval_id \in ids /\ last.approval_id # Newest(ids)) =>
                      last.err = "Unauthorized" /\ last.sent = 0
               /\ last.err = "ok" =>
                      last.approval_id \in ids /\ last.approval_id = Newest(ids)

\* C17 witness: a delegate approved twice on a token presents the first
\* identifier and is turned away while the second is stored.
C17_Witness_EarlierIdRejected ==
    /\ last.op = "sign_hash" /\ ~last.wasOwner /\ last.err = "Unauthorized"
    /\ last.approval_id \in IssuedFor(parse(last.token), last.caller)
    /\ last.stored # NoId /\ last.approval_id < last.stored

\* The notices of ckt_approve_call still unanswered with nothing done on
\* their token since the call
UnansweredClean == {p \in pendingApprove : p.clean}

\* C18: the approval of ckt_approve_call is stored when the call returns,
\* before the receiver answers: while the notice is unanswered (and nothing
\* else was done on the token) ckt_approval_id_for gives the issued
\* identifier and a ckt_sign_hash of the delegate presenting it is
\* authorized and forwarded; a callback that then takes the removing branch
\* removes the approval the request was forwarded under.
C18_ApprovalEffectiveBeforeAnswer ==
    /\ (last.op = "approve_call" /\ last.err = "ok") =>
           /\ ckt_approval_id_for(State, last.token, last.account) = last.ret
           /\ \E p \in UnansweredClean :
                  /\ p.token_id = parse(last.token)
                  /\ p.account_id = last.account
                  /\ p.approval_id = last.ret
    /\ \A p \in UnansweredClean :
           ckt_approval_id_for(State, to_string(p.token_id), p.account_id)
               = p.approval_id
    /\ (last.op = "sign_hash" /\ ~last.wasOwner /\ last.deposit >= 1
            /\ last.flag = "fits"
            /\ \E p \in UnansweredClean :
                   /\ p.token_id = parse(last.token)
                   /\ p.account_id = last.caller
                   /\ p.approval_id = last.approval_id) =>
           last.err = "ok" /\ last.sent = 1
    /\ (last.op = "approve_callback" /\ last.clean /\ last.flag # "Ok(false)") =>
           /\ last.err = "ok" /\ last.changed
           /\ last.stored = last.approval_id
           /\ ckt_approval_id_for(State, last.token, last.account) = NoId

\* C18 witness: a delegate's sign request is forwarded under an approval
\* whose notice the receiver has not answered yet.
C18_Witness_SignBeforeAnswer ==
    /\ last.op = "sign_hash" /\ ~last.wasOwner
    /\ last.err = "ok" /\ last.sent = 1
    /\ \E p \in UnansweredClean :
           /\ p.token_id = parse(last.token)
           /\ p.account_id = last.caller
           /\ p.approval_id = last.approval_id

\* C19, in a state: the request ckt_sign_hash forwards carries the key
\* version of the token's key record and the path made of the token id.
SignCarriesKeyVersion ==
    (last.op = "sign_hash" /\ last.err = "ok") =>
        /\ pendingSign # {}
        /\ \A p \in pendingSign :
               /\ p.key_version = key_data[parse(last.token)].key_version
               /\ p.key_version \in KeyVersions
               /\ p.caller = last.caller

\* C19, in a step: a key record, once written, stays, with its key version.
KeyVersionKept ==
    \A id \in DOMAIN key_data :
        /\ id \in DOMAIN key_data'
        /\ key_data'[id].key_version = key_data[id].key_version

\* C19: every sign request forwarded for a token carries the key version
\* written for it by mint_callback; no later call, hook or callback changes
\* the key version of a key record.
C19_KeyVersionImmutable ==
    []SignCarriesKeyVersion /\ [][KeyVersionKept]_vars

\* C19 witness: a sign request is forwarded for a token that was approved
\* on and transferred since its mint.
C19_Witness_SignAfterTransfer ==
    /\ last.op = "sign_hash" /\ last.err = "ok" /\ last.hadKey
    /\ GrantedFor(parse(last.token)) # {}
    /\ GrantedFor(parse(last.token)) \subseteq stale
    /\ \E p \in pendingSign :
           p.key_version = key_data[parse(last.token)].key_version

\* C20: the counter never wraps around. A mint or an approve that would
\* increment it past its maximum fails with the state unchanged and nothing
\* sent, so the counter stays at the maximum and the identifiers handed out
\* strictly increase below it: neither 0 nor any earlier one is issued again.
C20_CounterNeverWraps ==
    /\ next_id >= U32_MAX - 2 /\ next_id <= U32_MAX
    /\ \A i \in 1..Len(issued) :
           issued[i].id >= U32_MAX - 2 /\ issued[i].id < next_id
    /\ \A i, j \in 1..Len(issued) : i < j => issued[i].id < issued[j].id
    /\ last.err = "Overflow" =>
           /\ last.op \in {"mint", "approve", "approve_call"}
           /\ next_id = U32_MAX
           /\ ~last.changed
           /\ last.sent = 0
           /\ last.ret = NoId
    /\ (last.op \in {"mint", "approve", "approve_call"} /\ last.err = "ok") =>
           /\ last.ret >= U32_MAX - 2 /\ last.ret < next_id
           /\ \E i \in 1..Len(issued) : issued[i].id = last.ret

\* C20 witness: an approve by the owner of a token finds the counter at its
\* maximum, after a mint and an approve took the last two identifiers.
C20_Witness_ApproveAtMaximum ==
    /\ last.op \in {"approve", "approve_call"}
    /\ last.err = "Overflow"
    /\ last.wasOwner
    /\ Len(issued) = 2
    /\ issued[2].id = U32_MAX - 1

====
